---- MODULE Spec2Model ----
(***************************************************************************)
(* Model of the OpenHands CLI settings wizards (openhands/cli/settings.py) *)
(* and of the configuration root (openhands/core/config/                   *)
(* openhands_config.py).                                                   *)
(*                                                                         *)
(* Python values that may be None are records tagged with their type, so   *)
(* that None, str, SecretStr and bool values never compare equal by        *)
(* accident.  Python objects that are shared by reference (LLMConfig,      *)
(* AgentConfig) live in a heap (a sequence) and are named by their index.  *)
(***************************************************************************)
EXTENDS Integers, Sequences, FiniteSets, TLC

VARIABLES
    config,            \* the OpenHandsConfig object (with the heaps of its profiles)
    stored,            \* what the settings store holds: None or a Settings record
    organized_models,  \* organize_models_and_providers(get_supported_llm_models(config))
    wizard,            \* the routine that is running
    pc,                \* its position
    loc,               \* its local variables
    gvi,               \* the current/last get_validated_input call
    result,            \* how the routine ended: "none", "returned", "raised"
    exc,               \* the exception a prompt raised, or "none"
    events,            \* the steps the routine has completed, in order
    config0,           \* the configuration root when the routine started
    stored0,           \* the persisted settings when the routine started
    last_call          \* the last direct call of a configuration operation

vars == <<config, stored, organized_models, wizard, pc, loc, gvi, result, exc,
          events, config0, stored0, last_call>>

---------------------------------------------------------------------------
(* Bounds of the model *)

\* consecutive rejected inputs counted at one prompt (the count saturates)
MaxRetries == 2
\* explicit LLMConfig / AgentConfig objects a caller allocates in SpecConfig
MaxObjs == 2

---------------------------------------------------------------------------
(* Python values *)

None == [t |-> "None"]
Str(s) == [t |-> "str", v |-> s]
Bool(b) == [t |-> "bool", v |-> b]
SecretStr(s) == [t |-> "SecretStr", v |-> s]
Index(i) == [t |-> "int", v |-> i]

\* bool(x) of an optional str / SecretStr (len(SecretStr) is the secret's length)
Truthy(x) == x.t # "None" /\ x.v # ""

Range(s) == {s[i] : i \in 1..Len(s)}

IsSpace(c) == c \in {" ", "\t", "\n"}

RECURSIVE LStrip(_)
LStrip(s) ==
    IF Len(s) > 0 /\ IsSpace(SubSeq(s, 1, 1))
    THEN LStrip(SubSeq(s, 2, Len(s)))
    ELSE s

RECURSIVE RStrip(_)
RStrip(s) ==
    IF Len(s) > 0 /\ IsSpace(SubSeq(s, Len(s), Len(s)))
    THEN RStrip(SubSeq(s, 1, Len(s) - 1))
    ELSE s

\* str.strip()
strip(s) == RStrip(LStrip(s))

\* str.startswith(prefix)
startswith(s, prefix) ==
    Len(s) >= Len(prefix) /\ SubSeq(s, 1, Len(prefix)) = prefix

\* [m for m in xs if m not in ys]
RECURSIVE NotIn(_, _)
NotIn(xs, ys) ==
    IF xs = <<>> THEN <<>>
    ELSE IF Head(xs) \in Range(ys) THEN NotIn(Tail(xs), ys)
         ELSE <<Head(xs)>> \o NotIn(Tail(xs), ys)

\* [m for m in xs if m in ys]
RECURSIVE OnlyIn(_, _)
OnlyIn(xs, ys) ==
    IF xs = <<>> THEN <<>>
    ELSE IF Head(xs) \in ys THEN <<Head(xs)>> \o OnlyIn(Tail(xs), ys)
         ELSE OnlyIn(Tail(xs), ys)

---------------------------------------------------------------------------
(* Collaborators that the two source files import *)

OH_DEFAULT_AGENT == "CodeActAgent"

\* Agent.list_agents()
AgentList == <<"CodeActAgent", "BrowsingAgent">>

VERIFIED_PROVIDERS == <<"openhands", "anthropic", "openai", "mistral">>
VERIFIED_OPENHANDS_MODELS == <<"oh-sonnet", "oh-gpt">>
VERIFIED_ANTHROPIC_MODELS == <<"claude-4", "claude-3">>
VERIFIED_OPENAI_MODELS == <<"gpt-5", "o3">>
VERIFIED_MISTRAL_MODELS == <<"devstral">>

\* LLMConfig()
DefaultLLMConfig == [model |-> "claude-default", api_key |-> None, base_url |-> None]

\* AgentConfig()
DefaultAgentConfig == [condenser |-> [type |-> "noop"]]

\* Settings()
DefaultSettings ==
    [llm_model |-> None, llm_api_key |-> None, llm_base_url |-> None,
     agent |-> None, confirmation_mode |-> None,
     enable_default_condenser |-> TRUE, search_api_key |-> None]

\* OpenHandsConfig(): the fields the wizards and the getters read or write
DefaultConfig ==
    [llms |-> <<>>, agents |-> <<>>, llm_objs |-> <<>>, agent_objs |-> <<>>,
     default_agent |-> OH_DEFAULT_AGENT, confirmation_mode |-> FALSE,
     enable_default_condenser |-> TRUE, search_api_key |-> None]

---------------------------------------------------------------------------
(* OpenHandsConfig: named profiles.  llms and agents map a name to the     *)
(* heap index of the profile object; each operation returns the new        *)
(* configuration root and the object it returns (ref).                     *)

LLMNames == {"llm", "gpt"}

\* get_llm_config, were the default profile returned without being kept
get_llm_config_unkept(cfg, name) ==
    IF name \in DOMAIN cfg.llms
    THEN [config |-> cfg, ref |-> cfg.llms[name]]
    ELSE IF "llm" \notin DOMAIN cfg.llms
         THEN [config |-> [cfg EXCEPT !.llm_objs = Append(@, DefaultLLMConfig)],
               ref |-> Len(cfg.llm_objs) + 1]
         ELSE [config |-> cfg, ref |-> cfg.llms["llm"]]

\* get_llm_config, were a missed lookup to file the default profile under the
\* name that was asked for as well
get_llm_config_named(cfg, name) ==
    IF name \in DOMAIN cfg.llms
    THEN [config |-> cfg, ref |-> cfg.llms[name]]
    ELSE IF "llm" \notin DOMAIN cfg.llms
         THEN [config |-> [cfg EXCEPT
                              !.llm_objs = Append(@, DefaultLLMConfig),
                              !.llms = @ @@ ("llm" :> (Len(cfg.llm_objs) + 1))
                                         @@ (name :> (Len(cfg.llm_objs) + 1))],
               ref |-> Len(cfg.llm_objs) + 1]
         ELSE [config |-> [cfg EXCEPT !.llms = @ @@ (name :> cfg.llms["llm"])],
               ref |-> cfg.llms["llm"]]

get_llm_config(cfg, name) ==
    IF name \in DOMAIN cfg.llms
    THEN [config |-> cfg, ref |-> cfg.llms[name]]
    ELSE IF "llm" \notin DOMAIN cfg.llms
         THEN [config |-> [cfg EXCEPT
                              !.llm_objs = Append(@, DefaultLLMConfig),
                              !.llms = @ @@ ("llm" :> (Len(cfg.llm_objs) + 1))],
               ref |-> Len(cfg.llm_objs) + 1]
         ELSE [config |-> cfg, ref |-> cfg.llms["llm"]]

\* set_llm_config, were the name argument ignored in favour of its default
set_llm_config_default(cfg, value, name) ==
    [cfg EXCEPT !.llms = ("llm" :> value) @@ @]

set_llm_config(cfg, value, name) ==
    [cfg EXCEPT !.llms = (name :> value) @@ @]

get_agent_config(cfg, name) ==
    IF name \in DOMAIN cfg.agents
    THEN [config |-> cfg, ref |-> cfg.agents[name]]
    ELSE IF "agent" \notin DOMAIN cfg.agents
         THEN [config |-> [cfg EXCEPT
                              !.agent_objs = Append(@, DefaultAgentConfig),
                              !.agents = @ @@ ("agent" :> (Len(cfg.agent_objs) + 1))],
               ref |-> Len(cfg.agent_objs) + 1]
         ELSE [config |-> cfg, ref |-> cfg.agents["agent"]]

set_agent_config(cfg, value, name) ==
    [cfg EXCEPT !.agents = (name :> value) @@ @]

---------------------------------------------------------------------------
(* The model registry: organize_models_and_providers returns a dict, kept  *)
(* here in insertion order as a sequence of                                *)
(* [provider, separator, models] entries.                                  *)

RegistryFull ==
    << [provider |-> "openai", separator |-> "/", models |-> <<"gpt-4", "gpt-5">>],
       [provider |-> "anthropic", separator |-> "/",
        models |-> <<"claude-x", "claude-4">>],
       [provider |-> "openhands", separator |-> "/",
        models |-> <<"oh-gpt", "oh-extra">>],
       [provider |-> "mistral", separator |-> "/", models |-> <<"mistral-7b">>],
       [provider |-> "cohere", separator |-> ".", models |-> <<"command-r">>] >>

RegistryUnverified ==
    << [provider |-> "cohere", separator |-> ".", models |-> <<"command-r">>],
       [provider |-> "other", separator |-> "", models |-> <<>>] >>

Registries == {RegistryFull, RegistryUnverified}

\* list(organized_models.keys())
Keys(om) == [i \in 1..Len(om) |-> om[i].provider]

\* organized_models[provider]
Entry(om, provider) ==
    om[CHOOSE i \in 1..Len(om) : om[i].provider = provider]

---------------------------------------------------------------------------
(* Terminal input.  A prompt returns what the user typed or raises one of  *)
(* the three cancellation exceptions; a confirmation dialog returns the    *)
(* index of the selected choice or raises.                                 *)

Exceptions == {"UserCancelledError", "KeyboardInterrupt", "EOFError"}

Typed == {"", " ", "k9", "tvly-k"}
TypedProviders == Typed \cup {"cohere", "openhands"}
TypedAgents == Typed \cup Range(AgentList)

\* cli_confirm(config, question, choices): the indices it can return
ConfirmIndices(n) == 0..(n - 1)

\* the except clause of the wizards' try blocks
CaughtExceptions == {"UserCancelledError", "KeyboardInterrupt", "EOFError"}

\* the positions whose prompt is inside the wizard's try block
TryBlock ==
    {"b_provider_choice", "b_provider_input", "b_model_choice", "b_change_model",
     "b_model_input", "b_api_key",
     "a_custom_model", "a_base_url", "a_api_key", "a_agent",
     "a_confirmation_mode", "a_memory_condensation",
     "s_modify", "s_key_input"}

\* provider_validator
provider_validator(x) == x \in Range(Keys(organized_models))

\* model_validator
model_validator(x) == strip(x) # ""

\* lambda x: x in agent_list
agent_validator(x) == x \in Range(AgentList)

\* search_validator, were only blank input turned away
search_validator_nonblank(x) == strip(x) # ""

\* lambda x: x.startswith('tvly-') if x.strip() else False
search_validator(x) == IF strip(x) # "" THEN startswith(x, "tvly-") ELSE FALSE

Validate(validator, x) ==
    CASE validator = "provider_validator" -> provider_validator(x)
      [] validator = "model_validator" -> model_validator(x)
      [] validator = "agent_validator" -> agent_validator(x)
      [] validator = "search_validator" -> search_validator(x)

\* InputAccepted, were the emptiness check of the branch without a validator
\* left out
InputAcceptedAnything(validator, x) ==
    IF validator # "none" THEN Validate(validator, x) ELSE TRUE

\* one pass of get_validated_input's loop body: TRUE when it reaches `break`
InputAccepted(validator, x) ==
    IF validator # "none" THEN Validate(validator, x) ELSE x # ""

---------------------------------------------------------------------------
(* Local variables of a wizard, and how a wizard ends *)

LocInit ==
    [provider |-> None, model |-> None, api_key |-> None,
     custom_model |-> None, base_url |-> None, agent |-> None,
     enable_confirmation_mode |-> None, enable_memory_condensation |-> None,
     search_api_key |-> None,
     verified_providers |-> <<>>, provider_models |-> <<>>,
     default_model |-> None, offered |-> <<>>, settings |-> None]

\* a completed step of the wizard and what the user answered there
Ev(step, answer) == [step |-> step, answer |-> answer]

GviInit == [step |-> "none", validator |-> "none", retries |-> 0,
            value |-> None, last |-> "none"]

Min(a, b) == IF a < b THEN a ELSE b

\* a prompt or dialog at position pc raises e: the try block's except clause
\* returns, anywhere else the exception leaves the wizard
Raises ==
    \E e \in Exceptions :
        /\ exc' = e
        /\ pc' = "done"
        /\ result' = IF pc \in TryBlock /\ e \in CaughtExceptions
                     THEN "returned" ELSE "raised"
        /\ UNCHANGED <<config, stored, organized_models, wizard, loc, gvi,
                       events, config0, stored0, last_call>>

\* the wizard executes `return`
Returns ==
    /\ pc' = "done"
    /\ result' = "returned"

\* get_validated_input at position pc: the state of the call after one pass
\* of its loop with input x
GviAfter(validator, x) ==
    LET retries == IF gvi.step = pc THEN gvi.retries ELSE 0
    IN IF InputAccepted(validator, x)
       THEN [step |-> pc, validator |-> validator, retries |-> retries,
             value |-> Str(x), last |-> "accepted"]
       ELSE [step |-> pc, validator |-> validator,
             retries |-> Min(retries + 1, MaxRetries),
             value |-> None, last |-> "rejected"]

\* the loop prints the error message and prompts again
Reprompt(validator, x) ==
    /\ ~InputAccepted(validator, x)
    /\ gvi' = GviAfter(validator, x)
    /\ UNCHANGED <<config, stored, organized_models, wizard, pc, loc, result,
                   exc, events, config0, stored0, last_call>>

---------------------------------------------------------------------------
(* modify_llm_settings_basic *)

\* lines 226-233
ResolveProvider(om, provider) ==
    IF provider \notin Range(Keys(om))
    THEN IF "anthropic" \in Range(Keys(om)) THEN "anthropic" ELSE om[1].provider
    ELSE provider

\* ProviderModels, were the registry's models not filtered before the verified
\* ones are put in front
ProviderModelsUnfiltered(om, provider) ==
    LET m0 == Entry(om, provider).models
    IN CASE provider = "openai" -> VERIFIED_OPENAI_MODELS \o m0
         [] provider = "anthropic" -> VERIFIED_ANTHROPIC_MODELS \o m0
         [] provider = "mistral" -> VERIFIED_MISTRAL_MODELS \o m0
         [] provider = "openhands" -> VERIFIED_OPENHANDS_MODELS \o m0
         [] OTHER -> m0

\* lines 235-255
ProviderModels(om, provider) ==
    LET m0 == Entry(om, provider).models
        m1 == IF provider = "openai"
              THEN VERIFIED_OPENAI_MODELS \o NotIn(m0, VERIFIED_OPENAI_MODELS)
              ELSE m0
        m2 == IF provider = "anthropic"
              THEN VERIFIED_ANTHROPIC_MODELS \o NotIn(m1, VERIFIED_ANTHROPIC_MODELS)
              ELSE m1
        m3 == IF provider = "mistral"
              THEN VERIFIED_MISTRAL_MODELS \o NotIn(m2, VERIFIED_MISTRAL_MODELS)
              ELSE m2
    IN IF provider = "openhands"
       THEN VERIFIED_OPENHANDS_MODELS \o NotIn(m3, VERIFIED_OPENHANDS_MODELS)
       ELSE m3

\* lines 257-274
DefaultModel(provider, provider_models) ==
    IF provider = "anthropic" /\ VERIFIED_ANTHROPIC_MODELS # <<>>
    THEN VERIFIED_ANTHROPIC_MODELS[1]
    ELSE IF provider = "openai" /\ VERIFIED_OPENAI_MODELS # <<>>
    THEN VERIFIED_OPENAI_MODELS[1]
    ELSE IF provider = "mistral" /\ VERIFIED_MISTRAL_MODELS # <<>>
    THEN VERIFIED_MISTRAL_MODELS[1]
    ELSE IF provider = "openhands" /\ VERIFIED_OPENHANDS_MODELS # <<>>
    THEN VERIFIED_OPENHANDS_MODELS[1]
    ELSE IF provider_models # <<>> THEN provider_models[1]
         ELSE "claude-sonnet-4-20250514"

\* line 279: the choices of the OpenHands model dialog
model_choices == VERIFIED_OPENHANDS_MODELS

\* line 308: the words of the completer of the model prompt
model_completer(provider_models) == provider_models

\* lines 225-274 and the branch at 277: the provider is settled
WithProvider(l, chosen) ==
    LET provider == ResolveProvider(organized_models, chosen)
        provider_models == ProviderModels(organized_models, provider)
    IN [l EXCEPT !.provider = Str(provider),
                 !.provider_models = provider_models,
                 !.default_model = Str(DefaultModel(provider, provider_models)),
                 !.offered = IF provider = "openhands" THEN model_choices
                             ELSE <<>>]

ModelStep(provider) ==
    IF provider = "openhands" THEN "b_model_choice" ELSE "b_change_model"

\* lines 166-180
StartBasic ==
    /\ wizard = "none"
    /\ organized_models # <<>>
    /\ wizard' = "basic"
    /\ pc' = "b_provider_choice"
    /\ LET provider_list == Keys(organized_models)
           verified_providers == OnlyIn(VERIFIED_PROVIDERS, Range(provider_list))
           ordered == verified_providers \o NotIn(provider_list, verified_providers)
       IN loc' = [LocInit EXCEPT
                     !.verified_providers = verified_providers,
                     !.provider = Str(IF "anthropic" \in Range(ordered)
                                      THEN "anthropic" ELSE ordered[1])]
    /\ UNCHANGED <<config, stored, organized_models, gvi, result, exc, events,
                   config0, stored0, last_call>>

\* lines 189-206: the provider dialog
BasicProviderChoice ==
    /\ wizard = "basic" /\ pc = "b_provider_choice"
    /\ \/ Raises
       \/ \E choice_index \in ConfirmIndices(Len(loc.verified_providers) + 1) :
            /\ IF choice_index < Len(loc.verified_providers)
               THEN /\ loc' = WithProvider(loc, loc.verified_providers[choice_index + 1])
                    /\ pc' = ModelStep(loc'.provider.v)
               ELSE /\ loc' = loc
                    /\ pc' = "b_provider_input"
            /\ events' = Append(events, Ev("provider_choice", Index(choice_index)))
            /\ UNCHANGED <<config, stored, organized_models, wizard, gvi, result,
                           exc, config0, stored0, last_call>>

\* lines 209-223: the provider typed by hand
BasicProviderInput ==
    /\ wizard = "basic" /\ pc = "b_provider_input"
    /\ \/ Raises
       \/ \E x \in TypedProviders : Reprompt("provider_validator", x)
       \/ \E x \in TypedProviders :
            /\ InputAccepted("provider_validator", x)
            /\ gvi' = GviAfter("provider_validator", x)
            /\ loc' = WithProvider(loc, x)
            /\ pc' = ModelStep(loc'.provider.v)
            /\ events' = Append(events, Ev("provider_input", Str(x)))
            /\ UNCHANGED <<config, stored, organized_models, wizard, result, exc,
                           config0, stored0, last_call>>

\* lines 277-291: the OpenHands model dialog
BasicModelChoice ==
    /\ wizard = "basic" /\ pc = "b_model_choice"
    /\ \/ Raises
       \/ \E model_choice \in ConfirmIndices(Len(VERIFIED_OPENHANDS_MODELS)) :
            /\ loc' = [loc EXCEPT !.model = Str(model_choices[model_choice + 1])]
            /\ pc' = "b_api_key"
            /\ events' = Append(events, Ev("model_choice", Index(model_choice)))
            /\ UNCHANGED <<config, stored, organized_models, wizard, gvi, result,
                           exc, config0, stored0, last_call>>

\* lines 293-307, 333-335: keep the default model or type another
BasicChangeModel ==
    /\ wizard = "basic" /\ pc = "b_change_model"
    /\ \/ Raises
       \/ \E answer \in ConfirmIndices(2) :
            /\ IF answer = 1
               THEN /\ loc' = [loc EXCEPT
                                  !.offered = model_completer(loc.provider_models)]
                    /\ pc' = "b_model_input"
               ELSE /\ loc' = [loc EXCEPT !.model = loc.default_model]
                    /\ pc' = "b_api_key"
            /\ events' = Append(events, Ev("change_model", Index(answer)))
            /\ UNCHANGED <<config, stored, organized_models, wizard, gvi, result,
                           exc, config0, stored0, last_call>>

\* lines 308-332: the model typed by hand
BasicModelInput ==
    /\ wizard = "basic" /\ pc = "b_model_input"
    /\ \/ Raises
       \/ \E x \in Typed : Reprompt("model_validator", x)
       \/ \E x \in Typed :
            /\ InputAccepted("model_validator", x)
            /\ gvi' = GviAfter("model_validator", x)
            /\ loc' = [loc EXCEPT !.model = gvi'.value]
            /\ pc' = "b_api_key"
            /\ events' = Append(events, Ev("model_input", Str(x)))
            /\ UNCHANGED <<config, stored, organized_models, wizard, result, exc,
                           config0, stored0, last_call>>

\* lines 344-348
BasicApiKey ==
    /\ wizard = "basic" /\ pc = "b_api_key"
    /\ \/ Raises
       \/ \E x \in Typed : Reprompt("none", x)
       \/ \E x \in Typed :
            /\ InputAccepted("none", x)
            /\ gvi' = GviAfter("none", x)
            /\ loc' = [loc EXCEPT !.api_key = gvi'.value]
            /\ pc' = "confirm"
            /\ events' = Append(events, Ev("api_key", Str(x)))
            /\ UNCHANGED <<config, stored, organized_models, wizard, result, exc,
                           config0, stored0, last_call>>

\* ComposeModel, were the separator taken to be '/' for every provider
ComposeModelSlash(om, provider, model) ==
    provider \o "/" \o model

\* f'{provider}{organized_models[provider]["separator"]}{model}'
ComposeModel(om, provider, model) ==
    provider \o Entry(om, provider).separator \o model

\* BasicConfigWrite, were the agent and the condensation switch of the
\* configuration root left as they were
BasicConfigWriteKeepAgent(cfg, l) ==
    LET g == get_llm_config(cfg, "llm")
        c1 == [g.config EXCEPT
                  !.llm_objs[g.ref].model =
                      ComposeModel(organized_models, l.provider.v, l.model.v),
                  !.llm_objs[g.ref].api_key = SecretStr(l.api_key.v),
                  !.llm_objs[g.ref].base_url = None]
        c2 == set_llm_config(c1, g.ref, "llm")
        a == get_agent_config(c2, c2.default_agent)
        c4 == [a.config EXCEPT
                  !.agent_objs[a.ref].condenser =
                      [type |-> "llm", llm_config |-> g.ref]]
    IN set_agent_config(c4, a.ref, c4.default_agent)

\* lines 365-379
BasicConfigWrite(cfg, l) ==
    LET g == get_llm_config(cfg, "llm")
        c1 == [g.config EXCEPT
                  !.llm_objs[g.ref].model =
                      ComposeModel(organized_models, l.provider.v, l.model.v),
                  !.llm_objs[g.ref].api_key = SecretStr(l.api_key.v),
                  !.llm_objs[g.ref].base_url = None]
        c2 == set_llm_config(c1, g.ref, "llm")
        c3 == [c2 EXCEPT !.default_agent = OH_DEFAULT_AGENT,
                         !.enable_default_condenser = TRUE]
        a == get_agent_config(c3, c3.default_agent)
        c4 == [a.config EXCEPT
                  !.agent_objs[a.ref].condenser =
                      [type |-> "llm", llm_config |-> g.ref]]
    IN set_agent_config(c4, a.ref, c4.default_agent)

\* lines 385-389
BasicSettingsWrite(settings, l) ==
    [settings EXCEPT
        !.llm_model = Str(ComposeModel(organized_models, l.provider.v, l.model.v)),
        !.llm_api_key = SecretStr(l.api_key.v),
        !.llm_base_url = None,
        !.agent = Str(OH_DEFAULT_AGENT),
        !.enable_default_condenser = TRUE]

---------------------------------------------------------------------------
(* modify_llm_settings_advanced *)

\* lines 397-402
StartAdvanced ==
    /\ wizard = "none"
    /\ wizard' = "advanced"
    /\ pc' = "a_custom_model"
    /\ loc' = LocInit
    /\ UNCHANGED <<config, stored, organized_models, gvi, result, exc, events,
                   config0, stored0, last_call>>

\* lines 405-409
AdvancedCustomModel ==
    /\ wizard = "advanced" /\ pc = "a_custom_model"
    /\ \/ Raises
       \/ \E x \in Typed : Reprompt("none", x)
       \/ \E x \in Typed :
            /\ InputAccepted("none", x)
            /\ gvi' = GviAfter("none", x)
            /\ loc' = [loc EXCEPT !.custom_model = gvi'.value]
            /\ pc' = "a_base_url"
            /\ events' = Append(events, Ev("custom_model", Str(x)))
            /\ UNCHANGED <<config, stored, organized_models, wizard, result, exc,
                           config0, stored0, last_call>>

\* lines 411-415
AdvancedBaseUrl ==
    /\ wizard = "advanced" /\ pc = "a_base_url"
    /\ \/ Raises
       \/ \E x \in Typed : Reprompt("none", x)
       \/ \E x \in Typed :
            /\ InputAccepted("none", x)
            /\ gvi' = GviAfter("none", x)
            /\ loc' = [loc EXCEPT !.base_url = gvi'.value]
            /\ pc' = "a_api_key"
            /\ events' = Append(events, Ev("base_url", Str(x)))
            /\ UNCHANGED <<config, stored, organized_models, wizard, result, exc,
                           config0, stored0, last_call>>

\* AdvancedApiKey, were the key written to the configuration root as soon as
\* it is typed
AdvancedApiKeyEager ==
    /\ wizard = "advanced" /\ pc = "a_api_key"
    /\ \/ Raises
       \/ \E x \in Typed : Reprompt("none", x)
       \/ \E x \in Typed :
            /\ InputAccepted("none", x)
            /\ gvi' = GviAfter("none", x)
            /\ loc' = [loc EXCEPT !.api_key = gvi'.value]
            /\ LET g == get_llm_config(config, "llm")
               IN config' = [g.config EXCEPT
                                !.llm_objs[g.ref].api_key = SecretStr(x)]
            /\ pc' = "a_agent"
            /\ events' = Append(events, Ev("api_key", Str(x)))
            /\ UNCHANGED <<stored, organized_models, wizard, result, exc,
                           config0, stored0, last_call>>

\* lines 417-421
AdvancedApiKey ==
    /\ wizard = "advanced" /\ pc = "a_api_key"
    /\ \/ Raises
       \/ \E x \in Typed : Reprompt("none", x)
       \/ \E x \in Typed :
            /\ InputAccepted("none", x)
            /\ gvi' = GviAfter("none", x)
            /\ loc' = [loc EXCEPT !.api_key = gvi'.value]
            /\ pc' = "a_agent"
            /\ events' = Append(events, Ev("api_key", Str(x)))
            /\ UNCHANGED <<config, stored, organized_models, wizard, result, exc,
                           config0, stored0, last_call>>

\* lines 423-431
AdvancedAgent ==
    /\ wizard = "advanced" /\ pc = "a_agent"
    /\ \/ Raises
       \/ \E x \in TypedAgents : Reprompt("agent_validator", x)
       \/ \E x \in TypedAgents :
            /\ InputAccepted("agent_validator", x)
            /\ gvi' = GviAfter("agent_validator", x)
            /\ loc' = [loc EXCEPT !.agent = gvi'.value]
            /\ pc' = "a_confirmation_mode"
            /\ events' = Append(events, Ev("agent", Str(x)))
            /\ UNCHANGED <<config, stored, organized_models, wizard, result, exc,
                           config0, stored0, last_call>>

\* lines 433-440
AdvancedConfirmationMode ==
    /\ wizard = "advanced" /\ pc = "a_confirmation_mode"
    /\ \/ Raises
       \/ \E answer \in ConfirmIndices(2) :
            /\ loc' = [loc EXCEPT !.enable_confirmation_mode = Bool(answer = 0)]
            /\ pc' = "a_memory_condensation"
            /\ events' = Append(events, Ev("confirmation_mode", Index(answer)))
            /\ UNCHANGED <<config, stored, organized_models, wizard, gvi, result,
                           exc, config0, stored0, last_call>>

\* lines 442-449
AdvancedMemoryCondensation ==
    /\ wizard = "advanced" /\ pc = "a_memory_condensation"
    /\ \/ Raises
       \/ \E answer \in ConfirmIndices(2) :
            /\ loc' = [loc EXCEPT !.enable_memory_condensation = Bool(answer = 0)]
            /\ pc' = "confirm"
            /\ events' = Append(events, Ev("memory_condensation", Index(answer)))
            /\ UNCHANGED <<config, stored, organized_models, wizard, gvi, result,
                           exc, config0, stored0, last_call>>

\* lines 466-493
AdvancedConfigWrite(cfg, l) ==
    LET g == get_llm_config(cfg, "llm")
        c1 == [g.config EXCEPT
                  !.llm_objs[g.ref].model = l.custom_model.v,
                  !.llm_objs[g.ref].base_url = l.base_url,
                  !.llm_objs[g.ref].api_key = SecretStr(l.api_key.v)]
        c2 == set_llm_config(c1, g.ref, "llm")
        c3 == [c2 EXCEPT !.default_agent = l.agent.v,
                         !.confirmation_mode = l.enable_confirmation_mode.v]
        a == get_agent_config(c3, c3.default_agent)
        c4 == [a.config EXCEPT
                  !.agent_objs[a.ref].condenser =
                      IF l.enable_memory_condensation.v
                      THEN [type |-> "pipeline",
                            condensers |->
                                << [type |-> "conversation_window"],
                                   [type |-> "llm", llm_config |-> g.ref,
                                    keep_first |-> 4, max_size |-> 120] >>]
                      ELSE [type |-> "conversation_window"]]
    IN set_agent_config(c4, a.ref, "agent")

\* lines 499-504
AdvancedSettingsWrite(settings, l) ==
    [settings EXCEPT
        !.llm_model = l.custom_model,
        !.llm_api_key = SecretStr(l.api_key.v),
        !.llm_base_url = l.base_url,
        !.agent = l.agent,
        !.confirmation_mode = l.enable_confirmation_mode,
        !.enable_default_condenser = l.enable_memory_condensation.v]

---------------------------------------------------------------------------
(* modify_search_api_settings *)

\* lines 513-535
StartSearch ==
    /\ wizard = "none"
    /\ wizard' = "search"
    /\ pc' = "s_modify"
    /\ loc' = LocInit
    /\ UNCHANGED <<config, stored, organized_models, gvi, result, exc, events,
                   config0, stored0, last_call>>

\* SearchModify, were 'Remove API Key' to clear the key of the configuration
\* root at once
SearchModifyEager ==
    /\ wizard = "search" /\ pc = "s_modify"
    /\ \/ Raises
       \/ \E modify_key \in ConfirmIndices(3) :
            /\ IF modify_key = 0
               THEN /\ loc' = loc
                    /\ pc' = "s_key_input"
                    /\ result' = result
                    /\ config' = config
               ELSE IF modify_key = 1
               THEN /\ loc' = [loc EXCEPT !.search_api_key = Str("")]
                    /\ pc' = "confirm"
                    /\ result' = result
                    /\ config' = [config EXCEPT !.search_api_key = None]
               ELSE /\ loc' = loc
                    /\ Returns
                    /\ config' = config
            /\ events' = Append(events, Ev("modify_key", Index(modify_key)))
            /\ UNCHANGED <<stored, organized_models, wizard, gvi, exc,
                           config0, stored0, last_call>>

\* lines 538-554
SearchModify ==
    /\ wizard = "search" /\ pc = "s_modify"
    /\ \/ Raises
       \/ \E modify_key \in ConfirmIndices(3) :
            /\ IF modify_key = 0
               THEN /\ loc' = loc
                    /\ pc' = "s_key_input"
                    /\ result' = result
               ELSE IF modify_key = 1
               THEN /\ loc' = [loc EXCEPT !.search_api_key = Str("")]
                    /\ pc' = "confirm"
                    /\ result' = result
               ELSE /\ loc' = loc
                    /\ Returns
            /\ events' = Append(events, Ev("modify_key", Index(modify_key)))
            /\ UNCHANGED <<config, stored, organized_models, wizard, gvi, exc,
                           config0, stored0, last_call>>

\* lines 545-550
SearchKeyInput ==
    /\ wizard = "search" /\ pc = "s_key_input"
    /\ \/ Raises
       \/ \E x \in Typed : Reprompt("search_validator", x)
       \/ \E x \in Typed :
            /\ InputAccepted("search_validator", x)
            /\ gvi' = GviAfter("search_validator", x)
            /\ loc' = [loc EXCEPT !.search_api_key = gvi'.value]
            /\ pc' = "confirm"
            /\ events' = Append(events, Ev("search_api_key", Str(x)))
            /\ UNCHANGED <<config, stored, organized_models, wizard, result, exc,
                           config0, stored0, last_call>>

\* SecretStr(search_api_key) if search_api_key else None
SearchKeyValue(l) ==
    IF Truthy(l.search_api_key) THEN SecretStr(l.search_api_key.v) ELSE None

\* line 569
SearchConfigWrite(cfg, l) ==
    [cfg EXCEPT !.search_api_key = SearchKeyValue(l)]

\* line 576
SearchSettingsWrite(settings, l) ==
    [settings EXCEPT !.search_api_key = SearchKeyValue(l)]

---------------------------------------------------------------------------
(* The end of every wizard: confirmation, configuration root, settings     *)
(* store                                                                   *)

\* SaveConfirm, were the answer of the dialog not looked at
SaveConfirmIgnored ==
    /\ wizard \in {"basic", "advanced", "search"} /\ pc = "confirm"
    /\ \/ Raises
       \/ \E answer \in ConfirmIndices(2) :
            /\ pc' = "commit"
            /\ result' = result
            /\ events' = Append(events, Ev("confirm", Index(answer)))
            /\ UNCHANGED <<config, stored, organized_models, wizard, loc, gvi,
                           exc, config0, stored0, last_call>>

\* save_settings_confirmation, and `if not save_settings: return`
SaveConfirm ==
    /\ wizard \in {"basic", "advanced", "search"} /\ pc = "confirm"
    /\ \/ Raises
       \/ \E answer \in ConfirmIndices(2) :
            /\ IF answer = 0
               THEN /\ pc' = "commit"
                    /\ result' = result
               ELSE Returns
            /\ events' = Append(events, Ev("confirm", Index(answer)))
            /\ UNCHANGED <<config, stored, organized_models, wizard, loc, gvi,
                           exc, config0, stored0, last_call>>

ConfigWrite(cfg, l) ==
    CASE wizard = "basic" -> BasicConfigWrite(cfg, l)
      [] wizard = "advanced" -> AdvancedConfigWrite(cfg, l)
      [] wizard = "search" -> SearchConfigWrite(cfg, l)

SettingsWrite(settings, l) ==
    CASE wizard = "basic" -> BasicSettingsWrite(settings, l)
      [] wizard = "advanced" -> AdvancedSettingsWrite(settings, l)
      [] wizard = "search" -> SearchSettingsWrite(settings, l)

\* the writes to the configuration root after the confirmation
CommitConfig ==
    /\ pc = "commit"
    /\ config' = ConfigWrite(config, loc)
    /\ pc' = "load"
    /\ events' = Append(events, Ev("config", None))
    /\ UNCHANGED <<stored, organized_models, wizard, loc, gvi, result, exc,
                   config0, stored0, last_call>>

\* LoadSettings, were the wizard to start from a fresh Settings every time
LoadSettingsFresh ==
    /\ pc = "load"
    /\ loc' = [loc EXCEPT !.settings = DefaultSettings]
    /\ pc' = "store"
    /\ events' = Append(events, Ev("load", None))
    /\ UNCHANGED <<config, stored, organized_models, wizard, gvi, result, exc,
                   config0, stored0, last_call>>

\* settings = await settings_store.load(); if not settings: settings = Settings()
LoadSettings ==
    /\ pc = "load"
    /\ loc' = [loc EXCEPT !.settings = IF stored = None THEN DefaultSettings
                                       ELSE stored]
    /\ pc' = "store"
    /\ events' = Append(events, Ev("load", None))
    /\ UNCHANGED <<config, stored, organized_models, wizard, gvi, result, exc,
                   config0, stored0, last_call>>

\* the writes to the settings record and settings_store.store(settings)
StoreSettings ==
    /\ pc = "store"
    /\ stored' = SettingsWrite(loc.settings, loc)
    /\ loc' = [loc EXCEPT !.settings = stored']
    /\ Returns
    /\ events' = Append(events, Ev("store", None))
    /\ UNCHANGED <<config, organized_models, wizard, gvi, exc, config0, stored0, last_call>>

---------------------------------------------------------------------------
(* Direct calls of the configuration operations and of display_settings.   *)
(* last_call records the operation, its name argument, the object it got   *)
(* or returned, and the configuration root before the call.                *)

NoCall == [op |-> "none", name |-> "", ref |-> 0, before |-> DefaultConfig]

\* objects a caller constructs and hands to a setter
LLMValues == {[model |-> "openai/gpt-5", api_key |-> SecretStr("k9"),
               base_url |-> Str("http://host")]}
AgentValues == {[condenser |-> [type |-> "conversation_window"]]}

\* the names callers use in direct calls
CallAgentNames == {"agent", "CodeActAgent"}

GetLLM ==
    /\ wizard = "none"
    /\ \E name \in LLMNames :
         LET g == get_llm_config(config, name)
         IN /\ config' = g.config
            /\ last_call' = [op |-> "get_llm_config", name |-> name,
                             ref |-> g.ref, before |-> config]
    /\ UNCHANGED <<stored, organized_models, wizard, pc, loc, gvi, result, exc,
                   events, config0, stored0>>

\* set_llm_config with an object the configuration already holds
SetLLMExisting ==
    /\ wizard = "none"
    /\ \E name \in LLMNames, value \in 1..Len(config.llm_objs) :
         /\ config' = set_llm_config(config, value, name)
         /\ last_call' = [op |-> "set_llm_config", name |-> name,
                          ref |-> value, before |-> config]
    /\ UNCHANGED <<stored, organized_models, wizard, pc, loc, gvi, result, exc,
                   events, config0, stored0>>

\* set_llm_config with a newly constructed LLMConfig
SetLLMNew ==
    /\ wizard = "none"
    /\ Len(config.llm_objs) < MaxObjs
    /\ \E name \in LLMNames, obj \in LLMValues :
         LET value == Len(config.llm_objs) + 1
         IN /\ config' = set_llm_config(
                             [config EXCEPT !.llm_objs = Append(@, obj)],
                             value, name)
            /\ last_call' = [op |-> "set_llm_config", name |-> name,
                             ref |-> value, before |-> config]
    /\ UNCHANGED <<stored, organized_models, wizard, pc, loc, gvi, result, exc,
                   events, config0, stored0>>

GetAgent ==
    /\ wizard = "none"
    /\ \E name \in CallAgentNames :
         LET g == get_agent_config(config, name)
         IN /\ config' = g.config
            /\ last_call' = [op |-> "get_agent_config", name |-> name,
                             ref |-> g.ref, before |-> config]
    /\ UNCHANGED <<stored, organized_models, wizard, pc, loc, gvi, result, exc,
                   events, config0, stored0>>

\* set_agent_config with an object the configuration already holds
SetAgentExisting ==
    /\ wizard = "none"
    /\ \E name \in CallAgentNames, value \in 1..Len(config.agent_objs) :
         /\ config' = set_agent_config(config, value, name)
         /\ last_call' = [op |-> "set_agent_config", name |-> name,
                          ref |-> value, before |-> config]
    /\ UNCHANGED <<stored, organized_models, wizard, pc, loc, gvi, result, exc,
                   events, config0, stored0>>

\* set_agent_config with a newly constructed AgentConfig
SetAgentNew ==
    /\ wizard = "none"
    /\ Len(config.agent_objs) < MaxObjs
    /\ \E name \in CallAgentNames, obj \in AgentValues :
         LET value == Len(config.agent_objs) + 1
         IN /\ config' = set_agent_config(
                             [config EXCEPT !.agent_objs = Append(@, obj)],
                             value, name)
            /\ last_call' = [op |-> "set_agent_config", name |-> name,
                             ref |-> value, before |-> config]
    /\ UNCHANGED <<stored, organized_models, wizard, pc, loc, gvi, result, exc,
                   events, config0, stored0>>

\* display_settings, were the API key masked in the profile itself
display_settings_masking(cfg) ==
    LET g == get_llm_config(cfg, "llm")
    IN [g.config EXCEPT !.llm_objs[g.ref].api_key = SecretStr("********")]

\* display_settings: what it does to the program's state.  The table it
\* prints is built from values it reads and is kept nowhere.
display_settings(cfg) == get_llm_config(cfg, "llm").config

DisplaySettings ==
    /\ wizard = "none"
    /\ config' = display_settings(config)
    /\ last_call' = [op |-> "display_settings", name |-> "", ref |-> 0,
                     before |-> config]
    /\ UNCHANGED <<stored, organized_models, wizard, pc, loc, gvi, result, exc,
                   events, config0, stored0>>

---------------------------------------------------------------------------
(* The states a wizard is started in *)

ConfigLoaded ==
    [DefaultConfig EXCEPT
        !.llms = ("llm" :> 1),
        !.llm_objs = << [model |-> "anthropic/claude-4",
                         api_key |-> SecretStr("k9"), base_url |-> None] >>,
        !.agents = ("agent" :> 1),
        !.agent_objs = << DefaultAgentConfig >>]

ConfigCustom ==
    [llms |-> ("llm" :> 1) @@ ("gpt" :> 2),
     llm_objs |-> << [model |-> "my-model", api_key |-> SecretStr("k9"),
                      base_url |-> Str("http://host")],
                     [model |-> "openai/gpt-5", api_key |-> None,
                      base_url |-> None] >>,
     agents |-> ("agent" :> 1) @@ ("CodeActAgent" :> 2) @@ ("BrowsingAgent" :> 3),
     agent_objs |-> << DefaultAgentConfig,
                       [condenser |-> [type |-> "conversation_window"]],
                       [condenser |-> [type |-> "noop"]] >>,
     default_agent |-> "BrowsingAgent", confirmation_mode |-> TRUE,
     enable_default_condenser |-> FALSE,
     search_api_key |-> SecretStr("tvly-old")]

InitConfigs == {DefaultConfig, ConfigLoaded, ConfigCustom}

SettingsSaved ==
    [llm_model |-> Str("my-model"), llm_api_key |-> SecretStr("k9"),
     llm_base_url |-> Str("http://host"), agent |-> Str("BrowsingAgent"),
     confirmation_mode |-> Bool(TRUE), enable_default_condenser |-> FALSE,
     search_api_key |-> SecretStr("tvly-old")]

InitStored == {None, SettingsSaved}

Init ==
    /\ config \in InitConfigs
    /\ stored \in InitStored
    /\ organized_models \in Registries
    /\ wizard = "none"
    /\ pc = "idle"
    /\ loc = LocInit
    /\ gvi = GviInit
    /\ result = "none"
    /\ exc = "none"
    /\ events = <<>>
    /\ config0 = config
    /\ stored0 = stored
    /\ last_call = NoCall

Next ==
    \/ StartBasic
    \/ BasicProviderChoice
    \/ BasicProviderInput
    \/ BasicModelChoice
    \/ BasicChangeModel
    \/ BasicModelInput
    \/ BasicApiKey
    \/ StartAdvanced
    \/ AdvancedCustomModel
    \/ AdvancedBaseUrl
    \/ AdvancedApiKey
    \/ AdvancedAgent
    \/ AdvancedConfirmationMode
    \/ AdvancedMemoryCondensation
    \/ StartSearch
    \/ SearchModify
    \/ SearchKeyInput
    \/ SaveConfirm
    \/ CommitConfig
    \/ LoadSettings
    \/ StoreSettings

Spec == Init /\ [][Next]_vars

\* the configuration root as constructed, and direct calls on it
InitConfig ==
    /\ config = DefaultConfig
    /\ stored \in InitStored
    /\ organized_models = RegistryFull
    /\ wizard = "none"
    /\ pc = "idle"
    /\ loc = LocInit
    /\ gvi = GviInit
    /\ result = "none"
    /\ exc = "none"
    /\ events = <<>>
    /\ config0 = config
    /\ stored0 = stored
    /\ last_call = NoCall

NextConfig ==
    \/ GetLLM
    \/ SetLLMExisting
    \/ SetLLMNew
    \/ GetAgent
    \/ SetAgentExisting
    \/ SetAgentNew
    \/ DisplaySettings

SpecConfig == InitConfig /\ [][NextConfig]_vars

---------------------------------------------------------------------------
(* Reading the record of completed steps *)

Has(step) == \E i \in 1..Len(events) : events[i].step = step

AnswerOf(step) ==
    events[CHOOSE i \in 1..Len(events) : events[i].step = step].answer

Count(step) == Cardinality({i \in 1..Len(events) : events[i].step = step})

\* the confirmation dialog returned index 0
Confirmed == Has("confirm") /\ AnswerOf("confirm") = Index(0)

\* the confirmation dialog returned another index
Declined == Has("confirm") /\ AnswerOf("confirm") # Index(0)

Unchanged == config = config0 /\ stored = stored0

---------------------------------------------------------------------------
(* Properties *)

\* C1: when a prompt of a wizard raised UserCancelledError, KeyboardInterrupt
\* or EOFError, the wizard has ended with the configuration root and the
\* persisted settings as they were when it started, and store was never
\* called.
C1_CancelLeavesUnchanged ==
    exc # "none" =>
        /\ pc = "done"
        /\ Unchanged
        /\ ~Has("store")

\* a run cancelled after its inputs were collected
C1_Witness ==
    /\ exc # "none"
    /\ pc = "done"
    /\ wizard = "advanced"
    /\ loc.api_key # None

\* C2: when every input was valid and the user answers the final
\* confirmation with an index other than 0, the wizard returns with the
\* configuration root and the persisted settings unchanged and store is not
\* called.
C2_DeclineLeavesUnchanged ==
    Declined =>
        /\ pc = "done"
        /\ result = "returned"
        /\ Unchanged
        /\ ~Has("store")

\* a run of the basic wizard declined after every input was given
C2_Witness ==
    /\ Declined
    /\ wizard = "basic"
    /\ loc.api_key # None

\* the provider the user finally selected: the one typed by hand, else the
\* one picked in the dialog, whose choices are the verified providers the
\* registry has, in the order of VERIFIED_PROVIDERS
SelectedProvider ==
    IF Has("provider_input")
    THEN AnswerOf("provider_input").v
    ELSE SelectSeq(VERIFIED_PROVIDERS,
                   LAMBDA p : \E i \in 1..Len(organized_models) :
                                  organized_models[i].provider = p)
             [AnswerOf("provider_choice").v + 1]

\* the registry's entry of the selected provider
SelectedEntry ==
    CHOOSE e \in Range(organized_models) : e.provider = SelectedProvider

\* the verified models of a provider
Verified(provider) ==
    CASE provider = "openai" -> VERIFIED_OPENAI_MODELS
      [] provider = "anthropic" -> VERIFIED_ANTHROPIC_MODELS
      [] provider = "mistral" -> VERIFIED_MISTRAL_MODELS
      [] provider = "openhands" -> VERIFIED_OPENHANDS_MODELS
      [] OTHER -> <<>>

\* the model the user finally selected: the one chosen in the OpenHands
\* dialog, the one typed by hand, or the default model shown
SelectedModel ==
    IF Has("model_choice")
    THEN VERIFIED_OPENHANDS_MODELS[AnswerOf("model_choice").v + 1]
    ELSE IF Has("model_input")
    THEN AnswerOf("model_input").v
    ELSE loc.default_model.v

\* C3: after a confirmed save of modify_llm_settings_basic the persisted
\* llm_model is provider + separator + model, with the provider and the model
\* the user finally selected or typed and the separator the registry gives
\* for that provider.
C3_SavedModelIsComposed ==
    (wizard = "basic" /\ Has("store")) =>
        stored.llm_model =
            Str(SelectedProvider \o SelectedEntry.separator \o SelectedModel)

\* a save with a provider and a model typed by hand, the provider's
\* separator not being '/'
C3_Witness ==
    /\ wizard = "basic"
    /\ Has("store")
    /\ Has("provider_input")
    /\ Has("model_input")
    /\ SelectedEntry.separator = "."

\* the prompts that are get_validated_input calls
InputSteps ==
    {"b_provider_input", "b_model_input", "b_api_key", "a_custom_model",
     "a_base_url", "a_api_key", "a_agent", "s_key_input"}

\* what a returned value must satisfy, by validator
Acceptable(validator, v) ==
    CASE validator = "none" -> Len(v) > 0
      [] validator = "provider_validator" ->
            \E i \in 1..Len(organized_models) : organized_models[i].provider = v
      [] validator = "model_validator" ->
            \E i \in 1..Len(v) : SubSeq(v, i, i) \notin {" ", "\t", "\n"}
      [] validator = "agent_validator" ->
            \E i \in 1..Len(AgentList) : AgentList[i] = v
      [] validator = "search_validator" ->
            Len(v) >= 5 /\ SubSeq(v, 1, 5) = "tvly-"

\* C4: get_validated_input prompts again after every rejected input, however
\* many were rejected before, and ends only with an accepted value or with
\* a cancellation raised by the prompt; the value it returns satisfies the
\* validator when one is given and is non-empty when none is given.
C4_ValidatedInput ==
    /\ gvi.last = "rejected" =>
          /\ gvi.step \in InputSteps
          /\ gvi.value = None
          /\ \/ pc = gvi.step /\ result = "none"
             \/ pc = "done" /\ exc # "none"
    /\ gvi.last = "accepted" =>
          /\ gvi.value.t = "str"
          /\ Acceptable(gvi.validator, gvi.value.v)
    /\ (pc \notin InputSteps /\ gvi.step \in InputSteps /\ exc = "none") =>
          gvi.last = "accepted"

\* a value accepted after the largest counted number of rejections
C4_Witness ==
    /\ gvi.last = "accepted"
    /\ gvi.retries = MaxRetries
    /\ gvi.validator = "none"

KnownProviders == {"openai", "anthropic", "mistral", "openhands"}

\* the models of the registry's entry that are not verified, in registry order
Remaining(provider) ==
    SelectSeq(Entry(organized_models, provider).models,
              LAMBDA m : \A i \in 1..Len(Verified(provider)) :
                             Verified(provider)[i] # m)

\* the provider step of the basic wizard is over
ProviderSettled ==
    /\ wizard = "basic"
    /\ \/ Has("provider_input")
       \/ /\ Has("provider_choice")
          /\ AnswerOf("provider_choice").v < Len(loc.verified_providers)

\* the wizard has shown a model list: the OpenHands dialog, or the completer
\* of the model prompt
ListOffered ==
    /\ ProviderSettled
    /\ \/ loc.provider.v = "openhands"
       \/ Has("change_model") /\ AnswerOf("change_model").v = 1

\* C5 as stated: for each of the four known providers the model list
\* offered is the verified models followed by the remaining registry models,
\* and the default model is the first verified model.
C5_OfferedIsVerifiedThenRest ==
    (ListOffered /\ loc.provider.v \in KnownProviders) =>
        /\ loc.offered = Verified(loc.provider.v) \o Remaining(loc.provider.v)
        /\ loc.default_model = Str(Verified(loc.provider.v)[1])

\* C5 amended: the list is verified-then-remaining for openai, anthropic and
\* mistral; for openhands only the verified models are offered (the same
\* list is still computed but not shown); the default model is the first
\* verified model for all four.
C5_OfferedByProvider ==
    (ProviderSettled /\ loc.provider.v \in KnownProviders) =>
        /\ loc.provider_models =
               Verified(loc.provider.v) \o Remaining(loc.provider.v)
        /\ ListOffered =>
              /\ loc.offered = IF loc.provider.v = "openhands"
                               THEN VERIFIED_OPENHANDS_MODELS
                               ELSE loc.provider_models
              /\ \A i, j \in 1..Len(loc.offered) :
                     (i <= Len(Verified(loc.provider.v)) /\ i # j) =>
                         loc.offered[i] # loc.offered[j]
        /\ loc.default_model = Str(Verified(loc.provider.v)[1])

\* the OpenHands dialog shown while the registry has an unverified
\* OpenHands model
C5_Witness ==
    /\ ListOffered
    /\ loc.provider = Str("openhands")
    /\ loc.offered = VERIFIED_OPENHANDS_MODELS
    /\ Len(loc.provider_models) > Len(loc.offered)

\* the default LLM profile of the configuration root
LLMProfile == config.llm_objs[config.llms["llm"]]

\* C6 as stated: after a confirmed save every value the wizard collected is
\* the same in the configuration root and in the persisted settings.
C6_ConfigMirrorsSettings ==
    Has("store") =>
        /\ wizard \in {"basic", "advanced"} =>
              /\ stored.llm_model = Str(LLMProfile.model)
              /\ stored.llm_api_key = LLMProfile.api_key
              /\ stored.llm_base_url = LLMProfile.base_url
              /\ stored.agent = Str(config.default_agent)
              /\ stored.enable_default_condenser = config.enable_default_condenser
        /\ wizard = "advanced" =>
              stored.confirmation_mode = Bool(config.confirmation_mode)
        /\ wizard = "search" =>
              stored.search_api_key = config.search_api_key

\* the order of the steps of a wizard
StepRank(step) ==
    CASE step \in {"provider_choice", "custom_model", "modify_key"} -> 1
      [] step \in {"provider_input", "base_url", "search_api_key"} -> 2
      [] step \in {"model_choice", "change_model"} -> 3
      [] step = "model_input" -> 4
      [] step = "api_key" -> 5
      [] step = "agent" -> 6
      [] step = "confirmation_mode" -> 7
      [] step = "memory_condensation" -> 8
      [] step = "confirm" -> 9
      [] step = "config" -> 10
      [] step = "load" -> 11
      [] step = "store" -> 12

\* C7: the save confirmation is the sole commit point: the configuration
\* root is not written and load and store are not called before the
\* confirmation returned index 0; every input prompt comes before the
\* confirmation, the steps follow their fixed order, and store is called at
\* most once, as the last step.
C7_SoleCommitPoint ==
    /\ (config # config0 \/ stored # stored0 \/ Has("config") \/ Has("load")
          \/ Has("store")) => Confirmed
    /\ \A i, j \in 1..Len(events) :
          i < j => StepRank(events[i].step) < StepRank(events[j].step)
    /\ Count("confirm") <= 1
    /\ Count("store") <= 1
    /\ Has("store") =>
          /\ events[Len(events)].step = "store"
          /\ pc = "done"
          /\ result = "returned"

\* a confirmed save that went through every step
C7_Witness ==
    /\ wizard = "advanced"
    /\ Has("store")
    /\ Len(events) = 10
    /\ config # config0
    /\ stored # stored0

\* C8 as stated: each of the three exceptions, at every prompt including the
\* final confirmation, makes the wizard return normally without saving; none
\* escapes from the wizard.
C8_NoExceptionEscapes ==
    exc # "none" =>
        /\ pc = "done"
        /\ result = "returned"
        /\ ~Has("store")

\* C9 as stated: after any call of get_llm_config the key 'llm' is in llms,
\* after any call of get_agent_config the key 'agent' is in agents, and both
\* stay.
C9_DefaultsAfterAnyGet ==
    /\ last_call.op = "get_llm_config" => "llm" \in DOMAIN config.llms
    /\ last_call.op = "get_agent_config" => "agent" \in DOMAIN config.agents
    /\ "llm" \in DOMAIN last_call.before.llms => "llm" \in DOMAIN config.llms
    /\ "agent" \in DOMAIN last_call.before.agents =>
          "agent" \in DOMAIN config.agents

\* C9 amended: after a call of get_llm_config whose name is not a key of llms
\* the key 'llm' is in llms, after a call of get_agent_config whose name is
\* not a key of agents the key 'agent' is in agents; a call whose name is a
\* key adds nothing; once present, both keys stay through every getter and
\* setter call.
C9_DefaultsAfterMissedGet ==
    /\ (last_call.op = "get_llm_config"
          /\ last_call.name \notin DOMAIN last_call.before.llms) =>
              "llm" \in DOMAIN config.llms
    /\ (last_call.op = "get_agent_config"
          /\ last_call.name \notin DOMAIN last_call.before.agents) =>
              "agent" \in DOMAIN config.agents
    /\ (last_call.op = "get_llm_config"
          /\ last_call.name \in DOMAIN last_call.before.llms) =>
              config = last_call.before
    /\ (last_call.op = "get_agent_config"
          /\ last_call.name \in DOMAIN last_call.before.agents) =>
              config = last_call.before
    /\ "llm" \in DOMAIN last_call.before.llms => "llm" \in DOMAIN config.llms
    /\ "agent" \in DOMAIN last_call.before.agents =>
          "agent" \in DOMAIN config.agents

\* a lookup of a missing name that created the default profile
C9_Witness ==
    /\ last_call.op = "get_llm_config"
    /\ last_call.name = "gpt"
    /\ DOMAIN last_call.before.llms = {}
    /\ "llm" \in DOMAIN config.llms

\* C10 as stated: display_settings leaves the configuration root unchanged
\* and never touches the persisted settings.
C10_DisplayChangesNothing ==
    last_call.op = "display_settings" =>
        /\ config = last_call.before
        /\ stored = stored0

\* C10 amended: display_settings leaves every existing profile, agents and
\* the scalar settings unchanged and never touches the persisted settings;
\* the only change it can make is to add a default LLMConfig under 'llm'
\* when llms has no such key.
C10_DisplayAddsOnlyDefault ==
    last_call.op = "display_settings" =>
        LET b == last_call.before
        IN /\ stored = stored0
           /\ [config EXCEPT !.llms = b.llms, !.llm_objs = b.llm_objs] = b
           /\ DOMAIN config.llms = DOMAIN b.llms \cup {"llm"}
           /\ \A n \in DOMAIN b.llms : config.llms[n] = b.llms[n]
           /\ SubSeq(config.llm_objs, 1, Len(b.llm_objs)) = b.llm_objs
           /\ IF "llm" \in DOMAIN b.llms
              THEN config = b
              ELSE /\ Len(config.llm_objs) = Len(b.llm_objs) + 1
                   /\ config.llms["llm"] = Len(config.llm_objs)
                   /\ config.llm_objs[config.llms["llm"]] =
                          [model |-> "claude-default", api_key |-> None,
                           base_url |-> None]

\* display_settings called on a configuration root with other profiles
\* but no 'llm'
C10_Witness ==
    /\ last_call.op = "display_settings"
    /\ DOMAIN last_call.before.llms = {"gpt"}
    /\ DOMAIN config.llms = {"gpt", "llm"}

\* what a lookup of name in a mapping (profiles) with heap objs must have
\* done, given the mapping and heap before (profiles0, objs0), the key of
\* the default profile, the default profile and the object returned
LookupDone(name, key, default, profiles0, objs0, profiles, objs, ref) ==
    IF name \in DOMAIN profiles0
    THEN /\ ref = profiles0[name]
         /\ profiles = profiles0
         /\ objs = objs0
    ELSE /\ ref = profiles[key]
         /\ DOMAIN profiles = DOMAIN profiles0 \cup {key}
         /\ \A n \in DOMAIN profiles0 : profiles[n] = profiles0[n]
         /\ name # key => name \notin DOMAIN profiles
         /\ IF key \in DOMAIN profiles0
            THEN objs = objs0
            ELSE /\ objs = Append(objs0, default)
                 /\ ref = Len(objs)
                 /\ \A n \in DOMAIN profiles0 : profiles0[n] # ref

\* C11: get_llm_config(name) returns llms[name] when name is a key of llms;
\* otherwise it returns the profile under 'llm', creating a fresh default
\* LLMConfig there only when 'llm' is absent, and creates no entry under the
\* missing name; get_agent_config does the same with agents and 'agent';
\* two lookups in a row of the same missing name return the same object.
C11_LookupWithFallback ==
    /\ [](/\ last_call.op = "get_llm_config" =>
                /\ LookupDone(last_call.name, "llm",
                              [model |-> "claude-default", api_key |-> None,
                               base_url |-> None],
                              last_call.before.llms, last_call.before.llm_objs,
                              config.llms, config.llm_objs, last_call.ref)
                /\ config.agents = last_call.before.agents
                /\ config.agent_objs = last_call.before.agent_objs
          /\ last_call.op = "get_agent_config" =>
                /\ LookupDone(last_call.name, "agent",
                              [condenser |-> [type |-> "noop"]],
                              last_call.before.agents,
                              last_call.before.agent_objs,
                              config.agents, config.agent_objs, last_call.ref)
                /\ config.llms = last_call.before.llms
                /\ config.llm_objs = last_call.before.llm_objs)
    /\ [][(/\ last_call.op \in {"get_llm_config", "get_agent_config"}
           /\ last_call'.op = last_call.op
           /\ last_call'.name = last_call.name)
          => (last_call'.ref = last_call.ref /\ config' = config)]_vars

\* a second lookup in a row of a name that has no profile, after the first
\* one created the default profile
C11_Witness ==
    /\ last_call.op = "get_llm_config"
    /\ last_call.name = "gpt"
    /\ DOMAIN config.llms = {"llm"}
    /\ last_call.before = config
    /\ last_call.ref = config.llms["llm"]

\* what a set of the object ref under name in a mapping must have done
SetDone(name, ref, profiles0, objs0, profiles, objs) ==
    /\ DOMAIN profiles = DOMAIN profiles0 \cup {name}
    /\ profiles[name] = ref
    /\ \A n \in DOMAIN profiles0 \ {name} : profiles[n] = profiles0[n]
    /\ \A i \in 1..Len(objs0) : i <= Len(objs) /\ objs[i] = objs0[i]

\* C12: after set_llm_config(v, n) the entry under n is v, get_llm_config(n)
\* returns v without changing anything, every other entry of llms and every
\* entry of agents is as before, and a second set under n replaces the
\* first; set_agent_config and get_agent_config behave the same on agents.
C12_SetThenGet ==
    /\ [](/\ last_call.op = "set_llm_config" =>
                /\ SetDone(last_call.name, last_call.ref,
                           last_call.before.llms, last_call.before.llm_objs,
                           config.llms, config.llm_objs)
                /\ config.agents = last_call.before.agents
                /\ config.agent_objs = last_call.before.agent_objs
                /\ get_llm_config(config, last_call.name)
                      = [config |-> config, ref |-> last_call.ref]
          /\ last_call.op = "set_agent_config" =>
                /\ SetDone(last_call.name, last_call.ref,
                           last_call.before.agents,
                           last_call.before.agent_objs,
                           config.agents, config.agent_objs)
                /\ config.llms = last_call.before.llms
                /\ config.llm_objs = last_call.before.llm_objs
                /\ get_agent_config(config, last_call.name)
                      = [config |-> config, ref |-> last_call.ref])
    /\ [][/\ (/\ last_call.op = "set_llm_config"
              /\ last_call'.op = "get_llm_config"
              /\ last_call'.name = last_call.name)
             => (last_call'.ref = last_call.ref /\ config' = config)
          /\ (/\ last_call.op = "set_agent_config"
              /\ last_call'.op = "get_agent_config"
              /\ last_call'.name = last_call.name)
             => (last_call'.ref = last_call.ref /\ config' = config)
          /\ (/\ last_call.op = "set_llm_config"
              /\ last_call'.op = "set_llm_config"
              /\ last_call'.name = last_call.name)
             => config'.llms[last_call.name] = last_call'.ref
          /\ (/\ last_call.op = "set_agent_config"
              /\ last_call'.op = "set_agent_config"
              /\ last_call'.name = last_call.name)
             => config'.agents[last_call.name] = last_call'.ref]_vars

\* a set under 'gpt' that replaced another object there, with a different
\* profile kept under 'llm'
C12_Witness ==
    /\ last_call.op = "set_llm_config"
    /\ last_call.name = "gpt"
    /\ "gpt" \in DOMAIN last_call.before.llms
    /\ last_call.before.llms["gpt"] # last_call.ref
    /\ "llm" \in DOMAIN config.llms
    /\ config.llms["llm"] # config.llms["gpt"]

\* a search API key that may be saved: None or a secret starting with 'tvly-'
ValidSearchKey(k) ==
    \/ k = None
    \/ k.t = "SecretStr" /\ Len(k.v) >= 5 /\ SubSeq(k.v, 1, 5) = "tvly-"

\* C13: a search API key written by modify_search_api_settings to the
\* configuration root or the persisted settings is None (after 'Remove API
\* Key') or starts with 'tvly-', and an accepted search key is never blank;
\* the agent saved by modify_llm_settings_advanced is a member of the agent
\* list; a typed provider accepted by modify_llm_settings_basic is a key of
\* the organized model registry.
C13_OnlyValidValuesSaved ==
    /\ Has("search_api_key") =>
          /\ strip(AnswerOf("search_api_key").v) # ""
          /\ ValidSearchKey(SecretStr(AnswerOf("search_api_key").v))
    /\ (wizard = "search" /\ Has("config")) =>
          /\ ValidSearchKey(config.search_api_key)
          /\ config.search_api_key = None <=> AnswerOf("modify_key") = Index(1)
          /\ config.search_api_key # None =>
                config.search_api_key.v = AnswerOf("search_api_key").v
    /\ (wizard = "search" /\ Has("store")) =>
          /\ ValidSearchKey(stored.search_api_key)
          /\ stored.search_api_key = config.search_api_key
    /\ (wizard = "advanced" /\ Has("config")) =>
          config.default_agent \in {AgentList[i] : i \in 1..Len(AgentList)}
    /\ (wizard = "advanced" /\ Has("store")) =>
          /\ stored.agent.t = "str"
          /\ stored.agent.v \in {AgentList[i] : i \in 1..Len(AgentList)}
    /\ (wizard = "basic" /\ Has("provider_input")) =>
          \E i \in 1..Len(organized_models) :
              organized_models[i].provider = AnswerOf("provider_input").v

\* the search wizard stored a key the user typed, over another stored key
C13_Witness ==
    /\ wizard = "search"
    /\ Has("store")
    /\ Has("search_api_key")
    /\ stored0 # None
    /\ stored.search_api_key = SecretStr("tvly-k")
    /\ stored.search_api_key # stored0.search_api_key

\* the fields of the persisted settings record
SettingsFields ==
    {"llm_model", "llm_api_key", "llm_base_url", "agent", "confirmation_mode",
     "enable_default_condenser", "search_api_key"}

\* the record a save starts from: what load returned, or a fresh Settings
LoadedSettings ==
    IF stored0 = None
    THEN [llm_model |-> None, llm_api_key |-> None, llm_base_url |-> None,
          agent |-> None, confirmation_mode |-> None,
          enable_default_condenser |-> TRUE, search_api_key |-> None]
    ELSE stored0

\* the persisted fields whose value the wizard asks the user for
CollectedFields ==
    CASE wizard = "basic" -> {"llm_model", "llm_api_key"}
      [] wizard = "advanced" ->
             {"llm_model", "llm_api_key", "llm_base_url", "agent",
              "confirmation_mode", "enable_default_condenser"}
      [] wizard = "search" -> {"search_api_key"}
      [] OTHER -> {}

\* the persisted fields the wizard assigns between load and store
WrittenFields ==
    CASE wizard = "basic" ->
             {"llm_model", "llm_api_key", "llm_base_url", "agent",
              "enable_default_condenser"}
      [] wizard = "advanced" ->
             {"llm_model", "llm_api_key", "llm_base_url", "agent",
              "confirmation_mode", "enable_default_condenser"}
      [] wizard = "search" -> {"search_api_key"}
      [] OTHER -> {}

\* C14 as stated: after a confirmed save every persisted field the wizard
\* did not collect from the user holds the value that was loaded (or the
\* value of a fresh Settings when nothing was stored).
C14_UncollectedKeepLoaded ==
    Has("store") =>
        \A f \in SettingsFields \ CollectedFields :
            stored[f] = LoadedSettings[f]

\* C14, amended: after a confirmed save every persisted field outside the
\* ones the wizard assigns holds the value that was loaded (or the value of
\* a fresh Settings when nothing was stored): the search wizard changes
\* only search_api_key, the advanced wizard leaves search_api_key, and the
\* basic wizard leaves confirmation_mode and search_api_key, while it
\* assigns llm_base_url, agent and enable_default_condenser without
\* collecting them; nothing is stored before that.
C14_UnwrittenKeepLoaded ==
    /\ Has("store") =>
          \A f \in SettingsFields \ WrittenFields :
              stored[f] = LoadedSettings[f]
    /\ ~Has("store") => stored = stored0

\* a basic save over a stored record whose other fields were all set
C14_Witness ==
    /\ wizard = "basic"
    /\ Has("store")
    /\ stored0 # None
    /\ stored0.confirmation_mode = Bool(TRUE)
    /\ stored.confirmation_mode = Bool(TRUE)
    /\ stored.search_api_key = SecretStr("tvly-old")
    /\ stored.llm_model # stored0.llm_model

\* the profile get_agent_config(name) would have returned before the save:
\* the one under name, else the one under 'agent', else 0 for a new one
ProfileBefore(name) ==
    IF name \in DOMAIN config0.agents THEN config0.agents[name]
    ELSE IF "agent" \in DOMAIN config0.agents THEN config0.agents["agent"]
    ELSE 0

\* no two keys of a mapping hold the same object
NoSharedProfile(profiles) ==
    \A m, n \in DOMAIN profiles : m # n => profiles[m] # profiles[n]

\* C15: after the configuration writes of a confirmed basic or advanced
\* save with selected agent A, every entry of agents that existed before
\* has the value it had, unless it held the profile get_agent_config(A)
\* returned before the save; when A had its own profile, the entry under
\* 'agent' holds the same object as before, distinct from A's, and no two
\* keys that held distinct objects come to hold the same one.
C15_OnlySelectedProfileChanges ==
    (wizard \in {"basic", "advanced"} /\ Has("config")) =>
        LET A == config.default_agent
        IN /\ \A n \in DOMAIN config0.agents :
                 /\ n \in DOMAIN config.agents
                 /\ config0.agents[n] # ProfileBefore(A) =>
                       config.agent_objs[config.agents[n]]
                          = config0.agent_objs[config0.agents[n]]
           /\ (/\ A \in DOMAIN config0.agents
               /\ A # "agent"
               /\ "agent" \in DOMAIN config0.agents
               /\ NoSharedProfile(config0.agents)) =>
                 /\ config.agents["agent"] = config0.agents["agent"]
                 /\ config.agents["agent"] # config.agents[A]
                 /\ NoSharedProfile(config.agents)

\* C16: after the configuration writes of a confirmed basic save the 'llm'
\* profile has no base URL, the default agent is OH_DEFAULT_AGENT, memory
\* condensation is enabled and the default agent's profile has an 'llm'
\* condenser that uses the 'llm' profile; after the store the persisted
\* settings have no base URL, agent OH_DEFAULT_AGENT and condensation
\* enabled, whatever the configuration and the settings held before.
C16_BasicResetsToDefaults ==
    /\ (wizard = "basic" /\ Has("config")) =>
          /\ "llm" \in DOMAIN config.llms
          /\ config.llm_objs[config.llms["llm"]].base_url = None
          /\ config.default_agent = "CodeActAgent"
          /\ config.enable_default_condenser = TRUE
          /\ "CodeActAgent" \in DOMAIN config.agents
          /\ config.agent_objs[config.agents["CodeActAgent"]].condenser
                = [type |-> "llm", llm_config |-> config.llms["llm"]]
    /\ (wizard = "basic" /\ Has("store")) =>
          /\ stored.llm_base_url = None
          /\ stored.agent = Str("CodeActAgent")
          /\ stored.enable_default_condenser = TRUE

\* a basic save over a configuration and a stored record that had a base
\* URL, another agent and condensation disabled
C16_Witness ==
    /\ wizard = "basic"
    /\ Has("store")
    /\ config0.default_agent = "BrowsingAgent"
    /\ ~config0.enable_default_condenser
    /\ config0.llm_objs[config0.llms["llm"]].base_url = Str("http://host")
    /\ stored0 # None
    /\ stored0.agent = Str("BrowsingAgent")
    /\ stored0.llm_base_url = Str("http://host")
    /\ ~stored0.enable_default_condenser
    /\ stored.agent = Str("CodeActAgent")

====
